---- MODULE Spec2Model ----
(***************************************************************************)
(* Model of src/Run.py: a directory-tree replicator.  The script creates   *)
(* TARGET_DIR, then for each copy index i in range(COPIES) walks           *)
(* SOURCE_DIR top-down, mirrors every listed directory under TARGET_DIR    *)
(* and copies every file to <stem>_copy<i><ext> in the mirrored directory. *)
(*                                                                         *)
(* The file system is one tree holding both roots.  A name is a sequence   *)
(* of one-character strings, a path a sequence of names counted from the   *)
(* common parent directory of SOURCE_DIR and TARGET_DIR.                   *)
(***************************************************************************)
EXTENDS Integers, Sequences, FiniteSets, TLC

VARIABLES
  fsDirs,     \* the directories on disk (set of paths)
  fsFiles,    \* the regular files on disk (path -> content)
  COPIES,     \* Run.py:6, the number of passes
  pc,         \* position of the script
  i,          \* Run.py:10, the loop variable; -1 while it is unbound
  stack,      \* os.walk: the directories still to be listed
  root,       \* Run.py:11, the directory os.walk yielded last
  dest_path,  \* Run.py:13
  files,      \* Run.py:16, the file names the inner loop has not reached yet
  printed,    \* number of completion messages written
  err,        \* the exception that ended the run, "none" while there is none
  errPath,    \* the path that exception was raised on
  run,        \* 1 in the first run of the script, 2 in a second one
  fs0Dirs,    \* history: fsDirs before the first run
  fs0Files,   \* history: fsFiles before the first run
  made,       \* history: paths the running script created or wrote
  copied,     \* history: <<source file, index>> of the completed copy steps
  listed      \* history: source directories os.walk yielded

vars == <<fsDirs, fsFiles, COPIES, pc, i, stack, root, dest_path, files,
          printed, err, errPath, run, fs0Dirs, fs0Files, made, copied, listed>>

----------------------------------------------------------------------------
(* Bounds and input universe *)

MaxCopies == 3

Dot == <<".">>
DotDot == <<".", ".">>

SOURCE_DIR == << <<"D","A","T","A">> >>
TARGET_DIR == << <<"D","A","T","A","_","1","0","0","G","B">> >>

n_a == <<"a">>
n_a_t == <<"a",".","t">>
n_b_t == <<"b",".","t">>
n_sub == <<"s","u","b">>
n_a_copy0 == <<"a","_","c","o","p","y","0">>
n_a_copy1 == <<"a","_","c","o","p","y","1">>
n_a_copy0_copy1 == <<"a","_","c","o","p","y","0","_","c","o","p","y","1">>

RootFiles == {n_a, n_a_t, n_a_copy0}
RootDirs == {n_sub, n_a_copy0, n_a_copy1, n_a_copy0_copy1}
InnerFiles == {n_a, n_b_t}

Old == << <<"o","l","d">> >>
Partial == << <<"p","a","r","t">> >>

----------------------------------------------------------------------------
(* Paths *)

Parent(p) == SubSeq(p, 1, Len(p) - 1)
BaseName(p) == p[Len(p)]

RECURSIVE NormPath(_)
NormPath(p) ==
  IF p = <<>> THEN <<>>
  ELSE LET h == NormPath(Parent(p))
           n == BaseName(p)
       IN  IF n = Dot THEN h
           ELSE IF n = DotDot /\ h # <<>> THEN Parent(h)
           ELSE Append(h, n)

Join(a, b) == a \o b

RECURSIVE CommonLen(_, _)
CommonLen(p, q) ==
  IF p = <<>> \/ q = <<>> \/ Head(p) # Head(q) THEN 0
  ELSE 1 + CommonLen(Tail(p), Tail(q))

\* a relpath that loses the directory part
RelPath_flat(path, start) == <<Dot>>

RelPath(path, start) ==
  LET c == CommonLen(path, start)
      ups == [k \in 1..(Len(start) - c) |-> DotDot]
      r == ups \o SubSeq(path, c + 1, Len(path))
  IN  IF r = <<>> THEN <<Dot>> ELSE r

----------------------------------------------------------------------------
(* File names *)

Digits == <<"0","1","2","3","4","5","6","7","8","9">>

RECURSIVE Str(_)
Str(n) == IF n < 10 THEN <<Digits[n + 1]>>
          ELSE Str(n \div 10) \o <<Digits[(n % 10) + 1]>>

LastDot(s) ==
  LET ks == {k \in 1..Len(s) : s[k] = "."}
  IN  IF ks = {} THEN 0 ELSE CHOOSE k \in ks : \A m \in ks : m <= k

SplitExt(s) ==
  LET d == LastDot(s)
  IN  IF d > 0 /\ \E k \in 1..(d - 1) : s[k] # "."
      THEN <<SubSeq(s, 1, d - 1), SubSeq(s, d, Len(s))>>
      ELSE <<s, <<>> >>

NewFilename(file, idx) ==
  LET ne == SplitExt(file)
  IN  ne[1] \o <<"_","c","o","p","y">> \o Str(idx) \o ne[2]

----------------------------------------------------------------------------
(* File system primitives, as results over a given disk state *)

Prefixes(q) == {SubSeq(q, 1, k) : k \in 0..Len(q)}

\* makedirs without exist_ok=True
MakeDirs_strict(dirs, fls, p) ==
  LET q == NormPath(p)
      blocked == Prefixes(q) \cap DOMAIN fls
  IN  IF q \in dirs \/ q \in blocked
      THEN [err |-> "FileExistsError", path |-> q, dirs |-> dirs]
      ELSE IF blocked # {}
      THEN [err |-> "NotADirectoryError", path |-> q, dirs |-> dirs]
      ELSE [err |-> "none", path |-> q, dirs |-> dirs \cup Prefixes(q)]

MakeDirs(dirs, fls, p) ==
  LET q == NormPath(p)
      blocked == Prefixes(q) \cap DOMAIN fls
  IN  IF blocked = {}
      THEN [err |-> "none", path |-> q, dirs |-> dirs \cup Prefixes(q)]
      ELSE IF q \in blocked
      THEN [err |-> "FileExistsError", path |-> q, dirs |-> dirs]
      ELSE [err |-> "NotADirectoryError", path |-> q, dirs |-> dirs]

Put(fls, q, c) == [x \in DOMAIN fls \cup {q} |-> IF x = q THEN c ELSE fls[x]]

Copy(dirs, fls, src, dst) ==
  LET d0 == NormPath(dst)
      d1 == IF d0 \in dirs THEN Append(d0, BaseName(src)) ELSE d0
      s == NormPath(src)
  IN  IF s \notin DOMAIN fls
      THEN [err |-> "FileNotFoundError", path |-> s, files |-> fls]
      ELSE IF d1 \in dirs
      THEN [err |-> "IsADirectoryError", path |-> d1, files |-> fls]
      ELSE IF Parent(d1) \notin dirs
      THEN [err |-> "FileNotFoundError", path |-> d1, files |-> fls]
      ELSE [err |-> "none", path |-> d1, files |-> Put(fls, d1, fls[s])]

SubDirs(dirs, top) == {p \in dirs : p # <<>> /\ Parent(p) = top}
FileNames(fls, top) == {BaseName(p) : p \in {x \in DOMAIN fls : Parent(x) = top}}

PermsOf(S) ==
  {s \in [1..Cardinality(S) -> S] : \A x \in S : \E k \in 1..Cardinality(S) : s[k] = x}

----------------------------------------------------------------------------
(* Initial disks *)

SourceTree(rf, d, inf) ==
  [dirs |-> {SOURCE_DIR} \cup (IF d = <<>> THEN {} ELSE {Append(SOURCE_DIR, d)}),
   files |-> {Append(SOURCE_DIR, f) : f \in rf}
             \cup (IF d = <<>> THEN {} ELSE {SOURCE_DIR \o <<d, f>> : f \in inf})]

SourceTrees ==
  {[dirs |-> {}, files |-> {}]}
  \cup {SourceTree(rf, <<>>, {}) : rf \in SUBSET RootFiles}
  \cup {SourceTree(t[1], t[2], t[3]) :
          t \in {u \in (SUBSET RootFiles) \X RootDirs \X (SUBSET InnerFiles) :
                   u[2] \notin u[1]}}

TargetTrees ==
  { [dirs |-> {}, files |-> {}],
    [dirs |-> {TARGET_DIR}, files |-> {}],
    [dirs |-> {TARGET_DIR, Append(TARGET_DIR, n_a_copy0)},
     files |-> {TARGET_DIR \o <<n_a_copy0, n_a>>, Append(TARGET_DIR, <<"k">>)}],
    [dirs |-> {}, files |-> {TARGET_DIR}] }

\* the disks the liveness properties are checked on
LiveSourceTrees ==
  { [dirs |-> {}, files |-> {}],
    SourceTree({n_a, n_a_t}, n_sub, {n_b_t}),
    SourceTree({n_a}, n_a_copy1, {n_a}),
    SourceTree({n_a_copy0}, n_a_copy0_copy1, {n_a}) }

InitWith(sources, targets) ==
  /\ \E s \in sources, t \in targets :
       /\ fsDirs = {<<>>} \cup s.dirs \cup t.dirs
       /\ fsFiles = [p \in s.files \cup t.files |-> IF p \in s.files THEN p ELSE Old]
  /\ COPIES \in 0..MaxCopies
  /\ pc = "mkroot"
  /\ i = -1
  /\ stack = <<>>
  /\ root = <<>>
  /\ dest_path = <<>>
  /\ files = {}
  /\ printed = 0
  /\ err = "none"
  /\ errPath = <<>>
  /\ run = 1
  /\ fs0Dirs = fsDirs
  /\ fs0Files = fsFiles
  /\ made = {}
  /\ copied = {}
  /\ listed = {}

Init == InitWith(SourceTrees, TargetTrees)

LiveInit == InitWith(LiveSourceTrees, TargetTrees)

----------------------------------------------------------------------------
(* The script *)

Raise(kind, path) ==
  /\ pc' = "aborted"
  /\ err' = kind
  /\ errPath' = path

\* Run.py:8  os.makedirs(TARGET_DIR, exist_ok=True)
MkRoot ==
  /\ pc = "mkroot"
  /\ \E fault \in BOOLEAN :
       LET r == MakeDirs(fsDirs, fsFiles, TARGET_DIR)
       IN  IF fault /\ r.path \notin fsDirs
           THEN /\ Raise("OSError", r.path)
                /\ UNCHANGED <<fsDirs, made>>
           ELSE IF r.err # "none"
           THEN /\ Raise(r.err, r.path)
                /\ UNCHANGED <<fsDirs, made>>
           ELSE /\ fsDirs' = r.dirs
                /\ made' = made \cup (r.dirs \ fsDirs)
                /\ pc' = "loop"
                /\ UNCHANGED <<err, errPath>>
  /\ UNCHANGED <<fsFiles, COPIES, i, stack, root, dest_path, files, printed,
                 run, fs0Dirs, fs0Files, copied, listed>>

\* Run.py:10-11  the next index of range(COPIES); os.walk(SOURCE_DIR) starts
PassBegin ==
  /\ pc = "loop"
  /\ i + 1 < COPIES
  /\ i' = i + 1
  /\ stack' = <<SOURCE_DIR>>
  /\ pc' = "walk"
  /\ UNCHANGED <<fsDirs, fsFiles, COPIES, root, dest_path, files, printed,
                 err, errPath, run, fs0Dirs, fs0Files, made, copied, listed>>

\* an os.walk whose listing error is raised instead of dropped
WalkSkip_raise ==
  /\ pc = "walk"
  /\ stack # <<>>
  /\ Head(stack) \notin fsDirs
  /\ stack' = Tail(stack)
  /\ Raise("FileNotFoundError", Head(stack))
  /\ UNCHANGED <<fsDirs, fsFiles, COPIES, i, root, dest_path, files,
                 printed, run, fs0Dirs, fs0Files, made, copied, listed>>

\* Run.py:11  os.walk: the directory on top of the stack does not exist, so
\* scandir fails; onerror is None and the directory is skipped silently.
\* (Listing a directory that exists is taken to succeed.)
WalkSkip ==
  /\ pc = "walk"
  /\ stack # <<>>
  /\ Head(stack) \notin fsDirs
  /\ stack' = Tail(stack)
  /\ UNCHANGED <<fsDirs, fsFiles, COPIES, pc, i, root, dest_path, files,
                 printed, err, errPath, run, fs0Dirs, fs0Files, made, copied,
                 listed>>

\* Run.py:11-14  os.walk yields the next directory; it is mirrored
WalkDir ==
  /\ pc = "walk"
  /\ stack # <<>>
  /\ Head(stack) \in fsDirs
  /\ LET top == Head(stack)
         rel_path == RelPath(top, SOURCE_DIR)
         dp == Join(TARGET_DIR, rel_path)
         r == MakeDirs(fsDirs, fsFiles, dp)
         fs == FileNames(fsFiles, top)
     IN  /\ \E perm \in PermsOf(SubDirs(fsDirs, top)) :
               stack' = perm \o Tail(stack)
         /\ root' = top
         /\ dest_path' = dp
         /\ files' = fs
         /\ listed' = listed \cup {top}
         /\ \E fault \in BOOLEAN :
              IF fault /\ r.path \notin fsDirs
              THEN /\ Raise("OSError", r.path)
                   /\ UNCHANGED <<fsDirs, made>>
              ELSE IF r.err # "none"
              THEN /\ Raise(r.err, r.path)
                   /\ UNCHANGED <<fsDirs, made>>
              ELSE /\ fsDirs' = r.dirs
                   /\ made' = made \cup (r.dirs \ fsDirs)
                   /\ pc' = IF fs = {} THEN "walk" ELSE "files"
                   /\ UNCHANGED <<err, errPath>>
  /\ UNCHANGED <<fsFiles, COPIES, i, printed, run, fs0Dirs, fs0Files, copied>>

\* Run.py:16-25  one iteration of the inner loop
CopyFile ==
  /\ pc = "files"
  /\ \E file \in files :
       LET new_filename == NewFilename(file, i)
           src_file == Join(root, <<file>>)
           dst_file == Join(dest_path, <<new_filename>>)
           r == Copy(fsDirs, fsFiles, src_file, dst_file)
       IN  /\ files' = files \ {file}
           /\ \E outcome \in {"ok", "fault", "partial"} :
                IF r.err # "none"
                THEN /\ outcome = "ok"
                     /\ Raise(r.err, r.path)
                     /\ UNCHANGED <<fsFiles, made, copied>>
                ELSE IF outcome = "fault"
                THEN /\ Raise("OSError", r.path)
                     /\ UNCHANGED <<fsFiles, made, copied>>
                ELSE IF outcome = "partial"
                THEN /\ Raise("OSError", r.path)
                     /\ fsFiles' = Put(fsFiles, r.path, Partial)
                     /\ made' = made \cup {r.path}
                     /\ UNCHANGED copied
                ELSE /\ fsFiles' = r.files
                     /\ made' = made \cup {r.path}
                     /\ copied' = copied \cup {<<src_file, i>>}
                     /\ pc' = IF files' = {} THEN "walk" ELSE "files"
                     /\ UNCHANGED <<err, errPath>>
  /\ UNCHANGED <<fsDirs, COPIES, i, stack, root, dest_path, printed, run,
                 fs0Dirs, fs0Files, listed>>

\* Run.py:10-11  os.walk is exhausted: the pass is over
PassEnd ==
  /\ pc = "walk"
  /\ stack = <<>>
  /\ pc' = "loop"
  /\ UNCHANGED <<fsDirs, fsFiles, COPIES, i, stack, root, dest_path, files,
                 printed, err, errPath, run, fs0Dirs, fs0Files, made, copied,
                 listed>>

\* a completion message that does not wait for the outer loop to end
PrintDone_early ==
  /\ pc = "loop"
  /\ printed' = printed + 1
  /\ pc' = "done"
  /\ UNCHANGED <<fsDirs, fsFiles, COPIES, i, stack, root, dest_path, files,
                 err, errPath, run, fs0Dirs, fs0Files, made, copied, listed>>

\* Run.py:27  print(...)
PrintDone ==
  /\ pc = "loop"
  /\ i + 1 >= COPIES
  /\ printed' = printed + 1
  /\ pc' = "done"
  /\ UNCHANGED <<fsDirs, fsFiles, COPIES, i, stack, root, dest_path, files,
                 err, errPath, run, fs0Dirs, fs0Files, made, copied, listed>>

\* the script is started again on the disk a completed run left
Rerun ==
  /\ pc = "done"
  /\ run = 1
  /\ run' = 2
  /\ pc' = "mkroot"
  /\ i' = -1
  /\ printed' = 0
  /\ made' = {}
  /\ copied' = {}
  /\ listed' = {}
  /\ root' = <<>>
  /\ dest_path' = <<>>
  /\ UNCHANGED <<fsDirs, fsFiles, COPIES, stack, files, err, errPath,
                 fs0Dirs, fs0Files>>

Next ==
  \/ MkRoot
  \/ PassBegin
  \/ WalkSkip
  \/ WalkDir
  \/ CopyFile
  \/ PassEnd
  \/ PrintDone

Spec == Init /\ [][Next]_vars

NextTwice == Next \/ Rerun

SpecTwice == Init /\ [][NextTwice]_vars

LiveSpec == LiveInit /\ [][Next]_vars /\ WF_vars(Next)

TypeOK ==
  /\ pc \in {"mkroot", "loop", "walk", "files", "done", "aborted"}
  /\ i \in -1..(COPIES - 1)
  /\ printed \in 0..1

----------------------------------------------------------------------------
(* Vocabulary of the properties *)

IsUnder(p, r) == Len(p) > Len(r) /\ SubSeq(p, 1, Len(r)) = r
AtOrUnder(p, r) == p = r \/ IsUnder(p, r)
Rel(p, r) == SubSeq(p, Len(r) + 1, Len(p))

SrcFiles == {p \in DOMAIN fs0Files : IsUnder(p, SOURCE_DIR)}
SrcDirs == {p \in fs0Dirs : AtOrUnder(p, SOURCE_DIR)}
SrcMissing == SOURCE_DIR \notin fs0Dirs
FreshTarget ==
  /\ \A p \in fs0Dirs : ~AtOrUnder(p, TARGET_DIR) \/ p = TARGET_DIR
  /\ \A p \in DOMAIN fs0Files : ~AtOrUnder(p, TARGET_DIR)

\* dir/stem_copy<k>ext under the target root, for the source file f
TargetOf(f, k) ==
  TARGET_DIR \o Rel(Parent(f), SOURCE_DIR) \o <<NewFilename(BaseName(f), k)>>

Indices == 0..(COPIES - 1)
TargetFiles == {p \in DOMAIN fsFiles : IsUnder(p, TARGET_DIR)}
RelDirsUnder(dirs, r) == {Rel(p, r) : p \in {d \in dirs : AtOrUnder(d, r)}}
StructuralErrors ==
  {"FileExistsError", "NotADirectoryError", "IsADirectoryError", "FileNotFoundError"}

----------------------------------------------------------------------------
(* C1: after a completed run, every source file dir/stem.ext has, for every *)
(* index k below COPIES, a file dir/stem_copy<k>.ext under the target root  *)
(* holding the source file's content.  Stated for a target root that held  *)
(* nothing before the run, so that every entry met is the run's own.       *)
C1_EveryCopyPresent ==
  (pc = "done" /\ FreshTarget) =>
    \A f \in SrcFiles : \A k \in Indices :
      /\ TargetOf(f, k) \in DOMAIN fsFiles
      /\ fsFiles[TargetOf(f, k)] = fsFiles[f]

(* C2: after a completed run the number of regular files under the target  *)
(* root is COPIES times the number of source files.  Stated for a target   *)
(* root that held nothing before the run, the case in which the count can  *)
(* only come from the run itself.                                          *)
C2_FileCount ==
  (pc = "done" /\ FreshTarget) =>
    Cardinality(TargetFiles) = COPIES * Cardinality(SrcFiles)

(* C3: no name collision inside a run: the target path of a completed copy *)
(* is not a directory the run created, the file there still holds that     *)
(* copy's content (no other pair's copy was written over it), and no step  *)
(* is blocked by an entry the run created earlier.                         *)
C3_NoCollision ==
  /\ \A c \in copied :
       /\ TargetOf(c[1], c[2]) \notin (fsDirs \cap made)
       /\ TargetOf(c[1], c[2]) \in DOMAIN fsFiles =>
            fsFiles[TargetOf(c[1], c[2])] = c[1]
  /\ (pc = "aborted" /\ err \in StructuralErrors) => errPath \notin made

C5_MissingSource_Original ==
  SrcMissing =>
    /\ pc # "aborted"
    /\ pc # "mkroot" => TARGET_DIR \in fsDirs
    /\ fsFiles = fs0Files
    /\ fsDirs \subseteq fs0Dirs \cup {TARGET_DIR}
    /\ pc = "done" => printed = 1

C5_Safe ==
  SrcMissing =>
    /\ pc = "aborted" => (i = -1 /\ errPath = TARGET_DIR /\ fsDirs = fs0Dirs)
    /\ pc \notin {"mkroot", "aborted"} => fsDirs = fs0Dirs \cup {TARGET_DIR}
    /\ fsFiles = fs0Files
    /\ copied = {}
    /\ listed = {}
    /\ pc = "done" => printed = 1

(* C5, amended: with no source root, and provided the creation of the      *)
(* target root at line 8 does not itself fail, the run creates the target  *)
(* root if absent, writes no file, leaves the disk otherwise as it was,    *)
(* raises no error and reaches the completion message; when line 8 fails   *)
(* the run ends there with the disk unchanged.                             *)
C5_MissingSource ==
  /\ []C5_Safe
  /\ (SrcMissing /\ pc = "loop") ~> (pc = "done" /\ printed = 1)

C5_Witness ==
  /\ SrcMissing
  /\ pc = "done"
  /\ COPIES = 2
  /\ TARGET_DIR \in fsDirs \ fs0Dirs

(* C6: the first failing copy or directory creation ends the run: nothing  *)
(* happens after it, no message is printed, and the failing step leaves    *)
(* every directory and every file the run already wrote as it was.         *)
C6_AbortIsFinal ==
  [][/\ pc = "aborted" => UNCHANGED <<fsDirs, fsFiles, pc, printed>>
     /\ (pc # "aborted" /\ pc' = "aborted") =>
          /\ printed' = 0
          /\ fsDirs' = fsDirs
          /\ \A p \in made \cap DOMAIN fsFiles :
               p \in DOMAIN fsFiles' /\ fsFiles'[p] = fsFiles[p]]_vars

(* C7: in every state the source tree is as it was at the start, and every *)
(* file that was under the target root before the run, at a path that is   *)
(* no dir/stem_copy<k>ext of a source file, is still there unchanged.      *)
C7_Frame ==
  /\ \A p \in fsDirs \cup fs0Dirs :
       AtOrUnder(p, SOURCE_DIR) => (p \in fsDirs /\ p \in fs0Dirs)
  /\ \A p \in DOMAIN fsFiles \cup DOMAIN fs0Files :
       IsUnder(p, SOURCE_DIR) =>
         /\ p \in DOMAIN fsFiles
         /\ p \in DOMAIN fs0Files
         /\ fsFiles[p] = fs0Files[p]
  /\ \A p \in DOMAIN fs0Files :
       (IsUnder(p, TARGET_DIR)
          /\ p \notin {TargetOf(f, k) : f \in SrcFiles, k \in Indices}) =>
         (p \in DOMAIN fsFiles /\ fsFiles[p] = fs0Files[p])

(* C8: in a second run over the disk a completed first run left, no step   *)
(* fails on an entry that is already there: no directory is created anew,  *)
(* the directories are reused, and the run can end only with the           *)
(* completion message or on an I/O fault of a file copy.                   *)
C8_SecondRun ==
  run = 2 =>
    /\ made \cap fsDirs = {}
    /\ pc = "aborted" => (err = "OSError" /\ errPath \notin fsDirs)
    /\ pc \notin {"mkroot", "aborted"} => TARGET_DIR \in fsDirs
    /\ \A d \in listed : TARGET_DIR \o Rel(d, SOURCE_DIR) \in fsDirs

C8_Witness ==
  /\ run = 2
  /\ pc = "done"
  /\ COPIES = 2
  /\ Append(SOURCE_DIR, n_sub) \in listed
  /\ copied # {}

(* C9: passes run one after the other in increasing index order: once a    *)
(* step of pass k+1 has happened, every source file has its copy of index  *)
(* k and of every index below, and no copy of a later index exists yet.    *)
(* Stated for a target root that held nothing before the run.              *)
C9_PassesInOrder ==
  FreshTarget =>
    /\ \A k \in 0..(i - 1) : \A f \in SrcFiles :
         /\ TargetOf(f, k) \in DOMAIN fsFiles
         /\ fsFiles[TargetOf(f, k)] = fsFiles[f]
    /\ \A c \in copied : c[2] <= i

AllCopyStepsDone == copied = SrcFiles \X Indices

(* C10: every run ends, completed or aborted on its first error; the       *)
(* completion message is printed once, only in a completed run, after the  *)
(* copy steps of every pass, and no step follows it.                       *)
C10_Termination ==
  /\ <>(pc \in {"done", "aborted"})
  /\ [](/\ printed <= 1
        /\ printed = 1 <=> pc = "done"
        /\ pc = "aborted" <=> err # "none"
        /\ pc = "done" => (AllCopyStepsDone /\ i = COPIES - 1 /\ files = {}))
  /\ [][printed = 1 => UNCHANGED <<fsDirs, fsFiles, copied, printed>>]_vars

C10_Witness ==
  /\ pc = "done"
  /\ printed = 1
  /\ COPIES = 2
  /\ Cardinality(copied) >= 4

====
